---- MODULE Spec2Model ----
(***************************************************************************)
(* Model of the LazyLoad component of react-lazy-retry                     *)
(* (src/src/LazyLoad.tsx): the retry loop run inside the Promise handed to *)
(* React.lazy, the shared timer registry, the two keys (retryKey,          *)
(* mountKey), the error boundary wiring and the observability callbacks.   *)
(*                                                                         *)
(* One LoaderInstance is one execution of the Promise executor of lines    *)
(* 124-169: its closure variables (attempts, currentAttemptCancelled), the *)
(* props it captured and the promise it settles (the ResourceHandle).      *)
(***************************************************************************)
EXTENDS Naturals, Integers, Sequences, FiniteSets

VARIABLES
    props,          \* props of the last render: importFn, retries, retryDelay, verbose
    retryKey,       \* useState(0), line 75: the loader generation
    mountKey,       \* useState(0), line 74: the mount generation
    isMounted,      \* isMountedRef.current, line 77
    timers,         \* timersRef.current, line 76: the pending timers
    insts,          \* every LoaderInstance created so far, in creation order
    memoDeps,       \* dependency list of the memoised LazyComponent, line 171
    lazyInst,       \* instance started by the current LazyComponent, 0: not started
    boundaryError,  \* state of the ErrorBoundary, lines 276-281
    pendingEffects, \* effect cleanups the last commit scheduled and React has not run
    onErrorLog,     \* arguments of every onError call, line 186
    onRetryCalls,   \* number of onRetry calls, line 213
    clicks,         \* number of invocations of the error view's reset trigger
    resetTrace      \* the calls of the last reset trigger, in order, lines 192-214

vars == <<props, retryKey, mountKey, isMounted, timers, insts, memoDeps,
          lazyInst, boundaryError, pendingEffects, onErrorLog, onRetryCalls,
          clicks, resetTrace>>

----------------------------------------------------------------------------
(* Bounds of the model *)

\* largest value of the retries prop
MaxRetries == 3

\* largest number of loader invocations, over all instances
MaxLoads == 5

\* largest number of LoaderInstances created
MaxInst == 3

(* Program constants *)

DefaultRetries == 3

DefaultRetryDelay == 1000

----------------------------------------------------------------------------
(* Values *)

ImportFns == {"fnA", "fnB"}

RetriesVals == 0..MaxRetries

RetryDelayVals == {DefaultRetryDelay}

PropsVals == [importFn : ImportFns, retries : RetriesVals,
              retryDelay : RetryDelayVals, verbose : BOOLEAN]

NoError == <<"none", 0, 0>>

\* the error the n-th loader invocation of instance i fails with
LoadError(i, n) == <<"load", i, n>>

\* new Error("Import cancelled due to component unmount")
CancelError == <<"cancelled", 0, 0>>

\* the error thrown while rendering the resource instance i resolved
ConsumeError(i) == <<"consume", i, 0>>

\* the module the n-th loader invocation of instance i resolves with
Module(i, n) == <<"module", i, n>>

Max(a, b) == IF a >= b THEN a ELSE b

RECURSIVE SumInvocations(_)
SumInvocations(q) ==
    IF q = <<>> THEN 0 ELSE Head(q).invocations + SumInvocations(Tail(q))

\* loader invocations so far, over all instances
Loads == SumInvocations(insts)

\* room for one more LoaderInstance within the bounds
MayStart == Loads < MaxLoads /\ Len(insts) < MaxInst

----------------------------------------------------------------------------
(* The Promise executor: resolve, reject, tryImport *)

\* a success handler that never settles the handle
ResolveDropped(s, v) == s

\* resolve(module): the first settlement of a promise wins
Resolve(s, v) ==
    IF s.handle = "pending"
    THEN [s EXCEPT !.handle = "resolved", !.outcome = v]
    ELSE s

\* reject(error): the first settlement of a promise wins
Reject(s, e) ==
    IF s.handle = "pending"
    THEN [s EXCEPT !.handle = "rejected", !.outcome = e]
    ELSE s

\* a cancellation test that forgets the unmount
CancelledFlagOnly(s, mounted) == s.cancelled

\* the guard of lines 129, 136 and 141
Cancelled(s, mounted) == s.cancelled \/ ~mounted

\* tryImport up to the call of importFn, lines 128-134
TryImport(s, mounted) ==
    IF Cancelled(s, mounted)
    THEN Reject(s, CancelError)
    ELSE [s EXCEPT !.inflight = TRUE, !.invocations = @ + 1]

\* lines 125-126: the closure state of a fresh executor, before tryImport()
FreshInstance(p, rk) ==
    [gen |-> rk, retries |-> p.retries, retryDelay |-> p.retryDelay,
     attempts |-> 0, cancelled |-> FALSE, inflight |-> FALSE,
     handle |-> "pending", outcome |-> NoError,
     invocations |-> 0, delays |-> <<>>]

\* lines 124-169: the executor runs tryImport() once; the function it returns
\* (line 166) is discarded by the Promise constructor, so nothing ever sets
\* currentAttemptCancelled
NewInstance(p, rk, mounted) == TryImport(FreshInstance(p, rk), mounted)

\* a retry delay that does not grow with the attempt
RetryDelayConstant(s, attempts) == s.retryDelay

\* line 156
RetryDelayOf(s, attempts) == s.retryDelay * attempts

\* an exhaustion test that allows one attempt too many
ExhaustedOffByOne(s, attempts) == attempts > s.retries

\* an exhaustion test that gives up at the first failure
ExhaustedAtFirstFailure(s, attempts) == attempts >= 1

\* line 153
Exhausted(s, attempts) == attempts >= s.retries

----------------------------------------------------------------------------
(* Timers: createSafeTimeout, clearAllTimers *)

\* the timer that re-runs tryImport of instance i after its n-th failure
Timer(i, n, d) == [owner |-> i, n |-> n, delay |-> d]

\* lines 79-97: no timer is created once the component is unmounted
CreateSafeTimeout(ts, t, mounted) == IF ~mounted THEN ts ELSE ts \cup {t}

\* a clearing that leaves the pending timers in place
ClearAllTimersKeepsThem(ts) == ts

\* lines 99-104
ClearAllTimers(ts) == {}

----------------------------------------------------------------------------
(* Rendering *)

\* the dependency list of the useMemo of lines 117-171; log stands for verbose
\* (line 71), createSafeTimeout never changes (line 96)
Deps(p, rk) == <<p.importFn, p.retries, p.retryDelay, rk, p.verbose>>

\* useMemo returns a new React.lazy component iff a dependency changed
NewLazy(p, rk) == Deps(p, rk) # memoDeps

\* children rendered whatever the boundary holds
StartsInstanceUnderError(p, rk, be) == NewLazy(p, rk) \/ lazyInst = 0

\* lines 282-286: the children of the boundary are rendered only while it
\* holds no error; a lazy component not yet started runs its loader function
\* (lines 123-170) when it is first rendered
StartsInstance(p, rk, be) == be = NoError /\ (NewLazy(p, rk) \/ lazyInst = 0)

\* the cleanups a commit schedules: the effect of lines 106-114 re-runs when
\* log changes, the effect of lines 173-177 when retryKey changes
ScheduledCleanups(p, rk) ==
    (IF p.verbose # props.verbose THEN {"mounted"} ELSE {})
        \cup (IF rk # retryKey THEN {"retryKey"} ELSE {})

\* one render and commit of LazyLoad with props p, key rk, boundary state be
Render(p, rk, be) ==
    /\ memoDeps' = Deps(p, rk)
    /\ insts' = IF StartsInstance(p, rk, be)
                THEN Append(insts, NewInstance(p, rk, isMounted))
                ELSE insts
    /\ lazyInst' = IF StartsInstance(p, rk, be) THEN Len(insts) + 1
                   ELSE IF NewLazy(p, rk) THEN 0 ELSE lazyInst
    /\ pendingEffects' = pendingEffects \cup ScheduledCleanups(p, rk)

----------------------------------------------------------------------------
(* Reset: retryLazyComponent, handleReset, handleRetry *)

\* a call made during a reset, with the generation updates issued so far
Logged(st, step) ==
    [st EXCEPT !.trace = Append(@, [step |-> step, retryKey |-> st.retryKey,
                                    mountKey |-> st.mountKey])]

\* lines 192-196
RetryLazyComponent(st) ==
    LET cleared == Logged([st EXCEPT !.timers = ClearAllTimers(@)],
                          "clearAllTimers")
    IN Logged([cleared EXCEPT !.retryKey = @ + 1], "setRetryKey")

\* a reset that notifies the caller before it issues the generation updates
HandleResetNotifiesFirst(st) ==
    LET notified == Logged([st EXCEPT !.onRetryCalls = @ + 1], "onRetry")
        recreated == RetryLazyComponent(notified)
    IN Logged([recreated EXCEPT !.mountKey = @ + 1], "setMountKey")

\* a reset that recreates the lazy component and does not remount the subtree
HandleResetWithoutRemount(st) ==
    Logged([RetryLazyComponent(st) EXCEPT !.onRetryCalls = @ + 1], "onRetry")

\* lines 199-214
HandleReset(st) ==
    LET recreated == RetryLazyComponent(st)
        remounted == Logged([recreated EXCEPT !.mountKey = @ + 1],
                            "setMountKey")
    IN Logged([remounted EXCEPT !.onRetryCalls = @ + 1], "onRetry")

\* resetErrorBoundary of the ErrorBoundary of lines 276-281: it calls the
\* onReset prop, which is handleReset (line 279), and clears the caught error
ResetErrorBoundary(st) ==
    [HandleReset(st) EXCEPT !.boundaryError = NoError]

\* lines 224-227: the reset trigger handed to the error view
HandleRetry(st) == ResetErrorBoundary(HandleReset(st))

\* lines 180-189
HandleError(log, e) == Append(log, e)

----------------------------------------------------------------------------
(* Initial state: the first render and commit *)

Init ==
    /\ props \in PropsVals
    /\ retryKey = 0
    /\ mountKey = 0
    /\ isMounted = TRUE
    /\ timers = {}
    /\ insts = <<NewInstance(props, 0, TRUE)>>
    /\ memoDeps = Deps(props, 0)
    /\ lazyInst = 1
    /\ boundaryError = NoError
    /\ pendingEffects = {}
    /\ onErrorLog = <<>>
    /\ onRetryCalls = 0
    /\ clicks = 0
    /\ resetTrace = <<>>

----------------------------------------------------------------------------
(* Actions *)

\* lines 135-139: the loader invocation of instance i in flight succeeds
LoaderResolves(i) ==
    /\ i \in 1..Len(insts)
    /\ insts[i].inflight
    /\ LET s == [insts[i] EXCEPT !.inflight = FALSE]
       IN insts' = [insts EXCEPT ![i] =
                        IF ~Cancelled(s, isMounted)
                        THEN Resolve(s, Module(i, s.invocations))
                        ELSE s]
    /\ UNCHANGED <<props, retryKey, mountKey, isMounted, timers, memoDeps,
                   lazyInst, boundaryError, pendingEffects, onErrorLog,
                   onRetryCalls, clicks,
                   resetTrace>>

\* lines 140-161: the loader invocation of instance i in flight fails
LoaderRejects(i) ==
    /\ i \in 1..Len(insts)
    /\ insts[i].inflight
    /\ LET s == [insts[i] EXCEPT !.inflight = FALSE]
           n == s.attempts + 1
           d == RetryDelayOf(s, n)
       IN IF Cancelled(s, isMounted)
          THEN /\ insts' = [insts EXCEPT ![i] = Reject(s, CancelError)]
               /\ timers' = timers
          ELSE IF Exhausted(s, n)
          THEN /\ insts' = [insts EXCEPT ![i] =
                       Reject([s EXCEPT !.attempts = n],
                              LoadError(i, s.invocations))]
               /\ timers' = timers
          ELSE /\ insts' = [insts EXCEPT ![i] =
                       [s EXCEPT !.attempts = n, !.delays = Append(@, d)]]
               /\ timers' = CreateSafeTimeout(timers, Timer(i, n, d), isMounted)
    /\ UNCHANGED <<props, retryKey, mountKey, isMounted, memoDeps, lazyInst,
                   boundaryError, pendingEffects, onErrorLog, onRetryCalls, clicks,
                   resetTrace>>

\* a timer that stays registered and fires again (setInterval for setTimeout)
TimerFiresRepeatedly(t) ==
    /\ t \in timers
    /\ isMounted => Loads < MaxLoads
    /\ timers' = timers
    /\ insts' = IF isMounted
                THEN [insts EXCEPT ![t.owner] = TryImport(@, isMounted)]
                ELSE insts
    /\ UNCHANGED <<props, retryKey, mountKey, isMounted, memoDeps, lazyInst,
                   boundaryError, pendingEffects, onErrorLog, onRetryCalls, clicks,
                   resetTrace>>

\* lines 85-91: a pending timer fires
TimerFires(t) ==
    /\ t \in timers
    /\ isMounted => Loads < MaxLoads
    /\ timers' = timers \ {t}
    /\ insts' = IF isMounted
                THEN [insts EXCEPT ![t.owner] = TryImport(@, isMounted)]
                ELSE insts
    /\ UNCHANGED <<props, retryKey, mountKey, isMounted, memoDeps, lazyInst,
                   boundaryError, pendingEffects, onErrorLog, onRetryCalls, clicks,
                   resetTrace>>

\* the parent renders LazyLoad again with props p: a new importFn identity
\* (an inline arrow function is a new one on every render) or another verbose;
\* retries and retryDelay are kept over the life of the component
Rerender(p) ==
    /\ isMounted
    /\ pendingEffects = {}
    /\ p \in PropsVals
    /\ p # props
    /\ p.retries = props.retries
    /\ p.retryDelay = props.retryDelay
    /\ (p.importFn = props.importFn \/ p.verbose = props.verbose)
    /\ StartsInstance(p, retryKey, boundaryError) => MayStart
    /\ props' = p
    /\ Render(p, retryKey, boundaryError)
    /\ UNCHANGED <<retryKey, mountKey, isMounted, timers, boundaryError,
                   onErrorLog, onRetryCalls, clicks,
                   resetTrace>>

\* React runs the effect cleanups the last commit scheduled: lines 109-113
\* (followed by the effect body, line 107) and line 175
FlushEffects ==
    /\ pendingEffects # {}
    /\ timers' = ClearAllTimers(timers)
    /\ pendingEffects' = {}
    /\ UNCHANGED <<props, retryKey, mountKey, isMounted, insts, memoDeps,
                   lazyInst, boundaryError, onErrorLog, onRetryCalls, clicks,
                   resetTrace>>

\* the host removes the component: the cleanups of lines 109-113 and 175 run
Unmount ==
    /\ isMounted
    /\ isMounted' = FALSE
    /\ timers' = ClearAllTimers(timers)
    /\ pendingEffects' = {}
    /\ UNCHANGED <<props, retryKey, mountKey, insts, memoDeps, lazyInst,
                   boundaryError, onErrorLog, onRetryCalls, clicks,
                   resetTrace>>

\* a boundary that resets by itself when it captures a load failure
CaptureLoadFailureThenReset ==
    /\ isMounted
    /\ pendingEffects = {}
    /\ boundaryError = NoError
    /\ lazyInst # 0
    /\ insts[lazyInst].handle = "rejected"
    /\ boundaryError' = insts[lazyInst].outcome
    /\ onErrorLog' = HandleError(onErrorLog, insts[lazyInst].outcome)
    /\ retryKey' = retryKey + 1
    /\ UNCHANGED <<props, mountKey, isMounted, timers, insts, memoDeps,
                   lazyInst, pendingEffects, onRetryCalls, clicks, resetTrace>>

\* the rejected handle of the current lazy component is thrown into the
\* boundary, which calls onError = handleError (line 278)
CaptureLoadFailure ==
    /\ isMounted
    /\ pendingEffects = {}
    /\ boundaryError = NoError
    /\ lazyInst # 0
    /\ insts[lazyInst].handle = "rejected"
    /\ boundaryError' = insts[lazyInst].outcome
    /\ onErrorLog' = HandleError(onErrorLog, insts[lazyInst].outcome)
    /\ UNCHANGED <<props, retryKey, mountKey, isMounted, timers, insts,
                   memoDeps, lazyInst, pendingEffects, onRetryCalls, clicks,
                   resetTrace>>

\* rendering the resolved resource throws: the boundary captures it
CaptureConsumptionFailure ==
    /\ isMounted
    /\ pendingEffects = {}
    /\ boundaryError = NoError
    /\ lazyInst # 0
    /\ insts[lazyInst].handle = "resolved"
    /\ boundaryError' = ConsumeError(lazyInst)
    /\ onErrorLog' = HandleError(onErrorLog, ConsumeError(lazyInst))
    /\ UNCHANGED <<props, retryKey, mountKey, isMounted, timers, insts,
                   memoDeps, lazyInst, pendingEffects, onRetryCalls, clicks,
                   resetTrace>>

\* the error view invokes its reset trigger (handleRetry), and React renders
\* the batched state updates
ClickRetry ==
    /\ isMounted
    /\ pendingEffects = {}
    /\ boundaryError # NoError
    /\ MayStart
    /\ LET st == HandleRetry([timers |-> timers, retryKey |-> retryKey,
                              mountKey |-> mountKey,
                              onRetryCalls |-> onRetryCalls,
                              boundaryError |-> boundaryError,
                              trace |-> <<>>])
       IN /\ timers' = st.timers
          /\ resetTrace' = st.trace
          /\ retryKey' = st.retryKey
          /\ mountKey' = st.mountKey
          /\ onRetryCalls' = st.onRetryCalls
          /\ boundaryError' = st.boundaryError
          /\ Render(props, st.retryKey, st.boundaryError)
    /\ clicks' = clicks + 1
    /\ UNCHANGED <<props, isMounted, onErrorLog>>

Next ==
    \/ \E i \in 1..Len(insts) : LoaderResolves(i)
    \/ \E i \in 1..Len(insts) : LoaderRejects(i)
    \/ \E t \in timers : TimerFires(t)
    \/ \E p \in PropsVals : Rerender(p)
    \/ FlushEffects
    \/ Unmount
    \/ CaptureLoadFailure
    \/ CaptureConsumptionFailure
    \/ ClickRetry

Spec == Init /\ [][Next]_vars

----------------------------------------------------------------------------
(* Derived notions *)

Instances == 1..Len(insts)

\* instance i can still invoke the loader or settle its handle
Live(i) == insts[i].inflight \/ \E t \in timers : t.owner = i

\* the handle of instance i was rejected with an error of the loader
RejectedByLoader(i) ==
    insts[i].handle = "rejected" /\ insts[i].outcome[1] = "load"

\* lines 275-288: what the component displays
View ==
    IF ~isMounted THEN "none"
    ELSE IF boundaryError # NoError THEN "error"
    ELSE IF lazyInst # 0 /\ insts[lazyInst].handle = "resolved" THEN "resource"
    ELSE "loading"

----------------------------------------------------------------------------
(* C1 *)

\* C1, as stated: an instance whose handle is rejected with a loader error has
\* invoked the loader exactly retries times (retries = 0 included), and the
\* error is that of its last invocation.
C1_InvokedExactlyRetriesTimes ==
    \A i \in Instances :
        RejectedByLoader(i) =>
            /\ insts[i].invocations = insts[i].retries
            /\ insts[i].outcome = LoadError(i, insts[i].invocations)

\* C1, amended: an instance never invokes the loader more than max(retries, 1)
\* times; its handle is rejected with a loader error only after exactly
\* max(retries, 1) invocations, all of them failed, and the error is that of
\* the last invocation.
C1_InvokedMaxRetriesOneTimes ==
    \A i \in Instances :
        /\ insts[i].invocations <= Max(insts[i].retries, 1)
        /\ RejectedByLoader(i) =>
            /\ insts[i].invocations = Max(insts[i].retries, 1)
            /\ insts[i].attempts = insts[i].invocations
            /\ insts[i].outcome = LoadError(i, insts[i].invocations)

C1_Witness ==
    \E i \in Instances :
        /\ RejectedByLoader(i)
        /\ insts[i].retries = DefaultRetries
        /\ insts[i].invocations = DefaultRetries
        /\ isMounted

----------------------------------------------------------------------------
(* C2 *)

\* C2: the timer scheduled after the k-th failure of an instance (k < retries)
\* has delay retryDelay * k; with retries = 3 and retryDelay = 1000 an instance
\* whose loader failed twice and then succeeded has scheduled delays 1000 and
\* 2000, invoked the loader 3 times, and its handle is resolved.
C2_LinearBackoff ==
    /\ \A t \in timers :
        /\ t.owner \in Instances
        /\ t.n = insts[t.owner].attempts
        /\ t.n < insts[t.owner].retries
        /\ t.delay = insts[t.owner].retryDelay * t.n
    /\ \A i \in Instances :
        /\ Len(insts[i].delays) < Max(insts[i].retries, 1)
        /\ \A k \in 1..Len(insts[i].delays) :
               insts[i].delays[k] = insts[i].retryDelay * k
        /\ ( /\ insts[i].retries = DefaultRetries
             /\ insts[i].retryDelay = DefaultRetryDelay
             /\ insts[i].attempts = 2
             /\ insts[i].invocations = 3
             /\ ~insts[i].inflight
             /\ isMounted )
           => /\ insts[i].delays = <<1000, 2000>>
              /\ insts[i].handle = "resolved"
              /\ insts[i].outcome = Module(i, 3)

C2_Witness ==
    \E i \in Instances :
        /\ insts[i].retries = DefaultRetries
        /\ insts[i].retryDelay = DefaultRetryDelay
        /\ insts[i].handle = "resolved"
        /\ insts[i].delays = <<1000, 2000>>
        /\ insts[i].invocations = 3

----------------------------------------------------------------------------
(* C3 *)

----------------------------------------------------------------------------
(* C4 *)

\* C4: once retryKey has been incremented past the generation of an instance,
\* that instance invokes the loader no more, does not increment its attempts
\* counter, schedules no timer and does not settle its handle.
C4_ResetCancelsOldInstance ==
    [][\A i \in Instances :
          insts[i].gen < retryKey =>
              /\ insts'[i].invocations = insts[i].invocations
              /\ insts'[i].attempts = insts[i].attempts
              /\ insts'[i].handle = insts[i].handle
              /\ \A t \in timers' \ timers : t.owner # i]_vars

----------------------------------------------------------------------------
(* C5 *)

\* C5: one invocation of the error view's reset trigger clears every pending
\* timer, starts a new instance with attempts = 0, and increments retryKey by
\* exactly 1 and mountKey by exactly 1.
C5_ResetIncrementsKeysByOne ==
    [][clicks' # clicks =>
          /\ timers' = {}
          /\ Len(insts') = Len(insts) + 1
          /\ insts'[Len(insts')].attempts = 0
          /\ retryKey' = retryKey + 1
          /\ mountKey' = mountKey + 1]_vars

----------------------------------------------------------------------------
(* C6 *)

\* C6: onRetry is called exactly once in a step that invokes the error view's
\* reset trigger, and in no other step (a timer firing, an attempt settling).
C6_OnRetryOncePerReset ==
    [][onRetryCalls' - onRetryCalls = clicks' - clicks]_vars

----------------------------------------------------------------------------
(* C7 *)

\* every recorded onError call is for the exhaustion of one instance (its
\* handle rejected with the error of its last invocation, attempts >= retries)
\* or for a consumption failure of a resolved one, no instance has two, and
\* the error the boundary holds is the last one reported
C7_LogInvariant ==
    /\ \A k \in 1..Len(onErrorLog) :
          LET e == onErrorLog[k]
          IN /\ e[1] \in {"load", "consume"}
             /\ e[2] \in Instances
             /\ e[1] = "load" =>
                   /\ insts[e[2]].handle = "rejected"
                   /\ insts[e[2]].outcome = e
                   /\ insts[e[2]].attempts >= insts[e[2]].retries
                   /\ e[3] = insts[e[2]].invocations
             /\ e[1] = "consume" => insts[e[2]].handle = "resolved"
             /\ \A j \in 1..Len(onErrorLog) :
                   j # k => onErrorLog[j][2] # e[2]
    /\ boundaryError # NoError =>
          /\ onErrorLog # <<>>
          /\ boundaryError = onErrorLog[Len(onErrorLog)]

\* onError is called once, in the step in which the boundary captures a
\* failure of the current instance, and in no step in which an attempt
\* settles or a timer is scheduled or fires
C7_CallStep ==
    onErrorLog' # onErrorLog =>
        /\ boundaryError = NoError
        /\ boundaryError' # NoError
        /\ onErrorLog' = Append(onErrorLog, boundaryError')
        /\ boundaryError'[2] = lazyInst
        /\ lazyInst = Len(insts)
        /\ isMounted
        /\ ~insts[lazyInst].cancelled
        /\ UNCHANGED <<insts, timers>>

\* C7: onError is invoked exactly once for each exhausted-retries failure of
\* the current instance and once for each captured consumption failure, never
\* for a failed attempt followed by a scheduled retry, and never for a
\* cancelled or superseded instance.
C7_OnErrorOncePerFailure == []C7_LogInvariant /\ [][C7_CallStep]_vars

C7_Witness ==
    /\ \E k \in 1..Len(onErrorLog) :
          /\ onErrorLog[k][1] = "load"
          /\ insts[onErrorLog[k][2]].retries >= 2
    /\ \E k \in 1..Len(onErrorLog) : onErrorLog[k][1] = "consume"

----------------------------------------------------------------------------
(* C8 *)

\* C8: at most one instance has an attempt in flight or a retry timer pending.
C8_AtMostOneLiveInstance ==
    Cardinality({i \in Instances : Live(i)}) <= 1

----------------------------------------------------------------------------
(* C9 *)

\* C9: the error view is displayed only for the latest instance, when its
\* handle was rejected after its retries were exhausted or the consumption of
\* its resolved resource failed; while the current instance has an attempt in
\* flight or a retry timer pending the loading view is displayed.
C9_ErrorViewOnlyAfterTerminalFailure ==
    /\ View = "error" =>
          LET j == boundaryError[2]
          IN /\ j = Len(insts)
             /\ lazyInst \in {0, j}
             /\ ~Live(j)
             /\ \/ /\ boundaryError[1] = "load"
                   /\ insts[j].handle = "rejected"
                   /\ insts[j].outcome = boundaryError
                   /\ insts[j].attempts >= insts[j].retries
                \/ /\ boundaryError[1] = "consume"
                   /\ insts[j].handle = "resolved"
    /\ (isMounted /\ lazyInst # 0 /\ Live(lazyInst)) => View = "loading"

\* the error view is displayed after exhaustion while an earlier instance
\* still has an attempt in flight
C9_Witness ==
    /\ View = "error"
    /\ boundaryError[1] = "load"
    /\ insts[boundaryError[2]].retries >= 2
    /\ \E i \in Instances : Live(i)

----------------------------------------------------------------------------
(* C10 *)

\* C10: a render that changes verbose creates no instance, invokes no loader,
\* schedules and clears no timer, settles no handle, and changes neither the
\* keys nor the onError / onRetry calls.
C10_VerboseHasNoEffect ==
    [][props'.verbose # props.verbose =>
          UNCHANGED <<insts, timers, retryKey, mountKey, onErrorLog,
                      onRetryCalls>>]_vars

----------------------------------------------------------------------------
(* C11 *)

\* instance i is pending with no attempt in flight and no retry timer
Stalled(i) == insts[i].handle = "pending" /\ ~Live(i)

\* C11: while the component is mounted, the handle of the current instance is
\* never left pending with no attempt in flight and no retry timer pending (so
\* that, once every invocation settles and every timer fires, it reaches its
\* terminal settlement).
C11_CurrentInstanceNeverStalled ==
    (isMounted /\ lazyInst # 0) => ~Stalled(lazyInst)

----------------------------------------------------------------------------
(* C12 *)

\* the unmount and the reset leave the timer set empty; after the unmount no
\* timer is added, no instance is started and the loader is invoked no more
C12_TimerStep ==
    /\ (isMounted /\ ~isMounted') => timers' = {}
    /\ clicks' # clicks => timers' = {}
    /\ ~isMounted =>
          /\ ~isMounted'
          /\ timers' = {}
          /\ Len(insts') = Len(insts)
          /\ \A i \in Instances :
                insts'[i].invocations = insts[i].invocations

\* C12: the timer set is empty immediately after the unmount and immediately
\* after a reset's timer clearing; after the unmount it stays empty, no timer
\* callback runs and the loader is never invoked again.
C12_TimerCleanup ==
    [](~isMounted => timers = {}) /\ [][C12_TimerStep]_vars

\* unmounted after a reset, with an instance whose retry timer was cleared
C12_Witness ==
    /\ ~isMounted
    /\ clicks >= 1
    /\ \E i \in Instances :
          /\ insts[i].handle = "pending"
          /\ ~insts[i].inflight
          /\ insts[i].attempts >= 1
          /\ insts[i].invocations = insts[i].attempts

----------------------------------------------------------------------------
(* C13 *)

\* C13: every pending timer was scheduled by the current instance, an earlier
\* instance adds no timer to the set, and a step that does not replace the
\* current instance (such as the cleanup run for the previous retryKey) clears
\* no timer the current instance scheduled.
C13_TimersOwnedByCurrentInstance ==
    /\ [](\A t \in timers : t.owner = lazyInst)
    /\ [][(isMounted' /\ lazyInst' = lazyInst) =>
             \A t \in timers : t.owner = lazyInst => (t \in timers' \/
                 insts'[lazyInst].invocations # insts[lazyInst].invocations)]_vars

----------------------------------------------------------------------------
(* C14 *)

\* the timers instance i has pending
TimersOf(i) == {t \in timers : t.owner = i}

\* loader invocations of instance i whose outcome has not been processed:
\* every processed failure of a mounted component counts in attempts, a
\* success (or an outcome discarded after the unmount) ends the sequence
Unprocessed(i) == insts[i].invocations - insts[i].attempts

\* at most one invocation in flight, at most one timer, never both
C14_OneAtATime ==
    \A i \in Instances :
        /\ Cardinality(TimersOf(i)) <= 1
        /\ ~(insts[i].inflight /\ TimersOf(i) # {})
        /\ Unprocessed(i) \in {0, 1}
        /\ insts[i].inflight => Unprocessed(i) = 1
        /\ TimersOf(i) # {} => Unprocessed(i) = 0
        /\ \A t \in TimersOf(i) : t.n = insts[i].attempts

\* attempt k+1 of an instance is issued only by the timer scheduled after the
\* failure of attempt k, and an outcome is processed only for the one
\* invocation in flight
C14_InOrder ==
    \A i \in Instances :
        /\ insts'[i].invocations # insts[i].invocations =>
              /\ insts'[i].invocations = insts[i].invocations + 1
              /\ insts[i].attempts = insts[i].invocations
              /\ ~insts[i].inflight
              /\ Timer(i, insts[i].attempts,
                       insts[i].retryDelay * insts[i].attempts) \in timers \ timers'
        /\ (insts'[i].attempts # insts[i].attempts
               \/ insts'[i].handle # insts[i].handle) =>
              /\ insts[i].inflight
              /\ ~insts'[i].inflight

\* C14: within one instance attempts are strictly sequential: at most one
\* loader invocation in flight and at most one retry timer pending, never
\* both; attempt k+1 is issued only after attempt k failed and its retry timer
\* fired, and outcomes are processed in attempt order.
C14_SequentialAttempts == []C14_OneAtATime /\ [][C14_InOrder]_vars

\* an instance issues its third attempt while another instance is live
C14_Witness ==
    \E i, j \in Instances :
        /\ i # j
        /\ insts[i].inflight
        /\ insts[i].invocations = 3
        /\ Live(j)

----------------------------------------------------------------------------
(* C15 *)

\* C15: with retries <= 1 (0 included) retry is disabled: an instance invokes
\* the loader exactly once, schedules no timer, and its first failure rejects
\* the handle with that failure's error.
C15_NoRetryWhenRetriesAtMostOne ==
    \A i \in Instances :
        insts[i].retries <= 1 =>
            /\ insts[i].invocations = 1
            /\ insts[i].delays = <<>>
            /\ TimersOf(i) = {}
            /\ insts[i].attempts <= 1
            /\ insts[i].attempts = 1 =>
                  /\ insts[i].handle = "rejected"
                  /\ insts[i].outcome = LoadError(i, 1)

\* first failures rejected the handles of an instance with retries = 1 and,
\* after a reset, of its successor
C15_Witness ==
    \E i, j \in Instances :
        /\ i # j
        /\ insts[i].retries = 1
        /\ RejectedByLoader(i)
        /\ RejectedByLoader(j)

----------------------------------------------------------------------------
(* C16 *)

\* a settled instance has nothing in flight and no timer; a resolved handle
\* holds the value of the instance's last invocation
C16_SettledIsQuiet ==
    \A i \in Instances :
        insts[i].handle # "pending" =>
            /\ ~Live(i)
            /\ insts[i].handle = "resolved" =>
                  insts[i].outcome = Module(i, insts[i].invocations)

\* a success of a non-cancelled instance resolves its handle with that
\* attempt's value; a settled instance changes no more and schedules no timer
C16_SettleStep ==
    \A i \in Instances :
        /\ ( /\ insts[i].inflight
             /\ ~insts'[i].inflight
             /\ insts'[i].attempts = insts[i].attempts
             /\ ~Cancelled(insts[i], isMounted) )
           => /\ insts'[i].handle = "resolved"
              /\ insts'[i].outcome = Module(i, insts[i].invocations)
        /\ insts[i].handle # "pending" =>
              /\ insts'[i] = insts[i]
              /\ \A t \in timers' : t.owner # i

\* C16: when an attempt of a non-cancelled instance succeeds its handle is
\* resolved with that attempt's value; afterwards the instance never invokes
\* the loader, never schedules a timer, and a settled handle (resolved or
\* rejected) is never settled again.
C16_SuccessStopsTheLoop == []C16_SettledIsQuiet /\ [][C16_SettleStep]_vars

\* an instance resolved on a retry while another instance is still live
C16_Witness ==
    \E i, j \in Instances :
        /\ insts[i].handle = "resolved"
        /\ insts[i].attempts >= 1
        /\ i # j
        /\ Live(j)

----------------------------------------------------------------------------
(* C17 *)

\* the calls of one reset, in the order of lines 194, 195, 206 and 213
ResetOrder == <<"clearAllTimers", "setRetryKey", "setMountKey", "onRetry">>

\* the k-th reset of the last trigger made its four calls in the fixed order,
\* and both increments were issued when onRetry was called
C17_ResetInOrder(k) ==
    LET at(n) == resetTrace[4 * (k - 1) + n]
    IN /\ \A n \in 1..4 : at(n).step = ResetOrder[n]
       /\ at(2).retryKey = at(1).retryKey + 1
       /\ at(2).mountKey = at(1).mountKey
       /\ at(3).retryKey = at(2).retryKey
       /\ at(3).mountKey = at(2).mountKey + 1
       /\ at(4).retryKey = at(1).retryKey + 1
       /\ at(4).mountKey = at(1).mountKey + 1

C17_TraceInOrder ==
    /\ Len(resetTrace) % 4 = 0
    /\ \A k \in 1..(Len(resetTrace) \div 4) : C17_ResetInOrder(k)

\* a subtree rebuilt for a new mountKey consumes an instance created in the
\* same step for the new retryKey
C17_RebuiltSubtreeIsFresh ==
    mountKey' # mountKey =>
        /\ retryKey' > retryKey
        /\ Len(insts') = Len(insts) + 1
        /\ lazyInst' = Len(insts')
        /\ insts'[lazyInst'].gen = retryKey'
        /\ insts'[lazyInst'].attempts = 0
        /\ insts'[lazyInst'].handle = "pending"

\* C17: within one reset the calls are clear timers, increment retryKey,
\* increment mountKey, onRetry, in that order; both increments are issued when
\* onRetry is called; a subtree rebuilt for a new mountKey consumes the
\* LoaderInstance of the latest retryKey.
C17_ResetOrdering == []C17_TraceInOrder /\ [][C17_RebuiltSubtreeIsFresh]_vars

\* a reset has happened while an instance of an older generation was still
\* loading
C17_Witness ==
    /\ resetTrace # <<>>
    /\ mountKey > 0
    /\ lazyInst # 0
    /\ insts[lazyInst].gen = retryKey
    /\ \E i \in Instances : i # lazyInst /\ insts[i].gen < retryKey /\ Live(i)

----------------------------------------------------------------------------
(* C18 *)

\* C18: capturing a failure and every step of the retry loop (attempt failure,
\* timer scheduling, timer firing, settlement) leave retryKey and mountKey
\* unchanged and do not call onRetry; the keys change only in a step of the
\* reset trigger of the error view.
C18_NoAutomaticReset ==
    [][ /\ ( \/ retryKey' # retryKey
             \/ mountKey' # mountKey
             \/ onRetryCalls' # onRetryCalls )
           => (clicks' = clicks + 1 /\ boundaryError # NoError)
        /\ ( \/ insts' # insts /\ Len(insts') = Len(insts)
             \/ onErrorLog' # onErrorLog
             \/ \E t \in timers' : t \notin timers )
           => /\ retryKey' = retryKey
              /\ mountKey' = mountKey
              /\ onRetryCalls' = onRetryCalls ]_vars

\* a failure was captured after a full retry loop and nothing was reset
C18_Witness ==
    /\ Len(onErrorLog) >= 1
    /\ clicks = 0
    /\ retryKey = 0
    /\ mountKey = 0
    /\ onRetryCalls = 0
    /\ \E i \in Instances : RejectedByLoader(i) /\ insts[i].attempts >= 2

----------------------------------------------------------------------------
(* C19 *)

\* C19: a LoaderInstance is created only on first mount and when retryKey is
\* incremented: a render with the same retryKey (with a new importFn or another
\* verbose) creates no instance and starts no sequence of loader invocations,
\* and a replaced instance has neither an invocation in flight nor a timer.
C19_InstanceOnlyOnRetryKeyIncrement ==
    [][ /\ retryKey' = retryKey => Len(insts') = Len(insts)
        /\ lazyInst' # lazyInst /\ lazyInst # 0 => ~Live(lazyInst)' ]_vars

----------------------------------------------------------------------------
(* C20 *)

\* attempts stays within 0..max(retries, 1); a pending timer was scheduled
\* with attempts < retries; a handle rejected with the loader's error has
\* attempts >= retries
C20_AttemptsInRange ==
    /\ \A i \in Instances :
          /\ insts[i].attempts \in 0..Max(insts[i].retries, 1)
          /\ insts[i].attempts <= insts[i].invocations
          /\ RejectedByLoader(i) => insts[i].attempts >= insts[i].retries
    /\ \A t \in timers :
          /\ t.n < insts[t.owner].retries
          /\ t.n <= insts[t.owner].attempts

\* attempts starts at 0 and changes only by +1, on the failure of the
\* invocation in flight of a mounted, non-cancelled instance; a timer is
\* scheduled only by such a failure, with attempts < retries
C20_AttemptsStep ==
    /\ \A i \in Instances :
          /\ insts'[i].attempts >= insts[i].attempts
          /\ insts'[i].attempts # insts[i].attempts =>
                /\ insts'[i].attempts = insts[i].attempts + 1
                /\ insts[i].inflight
                /\ ~insts'[i].inflight
                /\ isMounted
                /\ ~insts[i].cancelled
    /\ \A i \in 1..Len(insts') : i > Len(insts) => insts'[i].attempts = 0
    /\ \A t \in timers' :
          t \notin timers =>
              /\ insts'[t.owner].attempts = insts[t.owner].attempts + 1
              /\ t.n = insts'[t.owner].attempts
              /\ t.n < insts[t.owner].retries

\* C20: within one LoaderInstance attempts starts at 0, changes only by +1 on
\* a non-cancelled failure, never decreases and never exceeds max(retries, 1);
\* a timer is scheduled only while attempts < retries, and the handle is
\* rejected by exhaustion only when attempts >= retries.
C20_AttemptCounter == []C20_AttemptsInRange /\ [][C20_AttemptsStep]_vars

\* one instance exhausted its retries and another one failed after the
\* unmount without counting the failure
C20_Witness ==
    /\ ~isMounted
    /\ \E i, j \in Instances :
          /\ RejectedByLoader(i)
          /\ insts[i].attempts = insts[i].retries
          /\ insts[i].retries >= 2
          /\ insts[j].outcome = CancelError
          /\ insts[j].attempts < insts[j].invocations

----------------------------------------------------------------------------
(* C21 *)

\* the two keys are equal natural numbers
C21_KeysEqual ==
    /\ retryKey \in Nat
    /\ mountKey \in Nat
    /\ mountKey = retryKey

\* the keys never decrease and change only together; the subtree is remounted
\* only with a new instance, and a reset creates an instance only with a
\* remount
C21_KeysStep ==
    /\ retryKey' >= retryKey
    /\ mountKey' >= mountKey
    /\ (retryKey' # retryKey) <=> (mountKey' # mountKey)
    /\ mountKey' # mountKey =>
          /\ Len(insts') = Len(insts) + 1
          /\ lazyInst' = Len(insts')
    /\ (clicks' # clicks /\ Len(insts') # Len(insts)) => mountKey' # mountKey

\* C21: retryKey and mountKey both start at 0 and never decrease; handleReset,
\* the only operation that changes either, advances both, so mountKey equals
\* retryKey in every state after a reset; the subtree is never remounted
\* without a new LoaderInstance and a reset never creates a LoaderInstance
\* without a remount.
C21_GenerationCounters ==
    /\ retryKey = 0
    /\ mountKey = 0
    /\ []C21_KeysEqual
    /\ [][C21_KeysStep]_vars

\* after a reset the remounted subtree displays the resource of the new
\* instance
C21_Witness ==
    /\ clicks >= 1
    /\ retryKey > 0
    /\ mountKey = retryKey
    /\ boundaryError = NoError
    /\ lazyInst # 0
    /\ insts[lazyInst].gen = retryKey
    /\ insts[lazyInst].handle = "resolved"

====
